---- MODULE Spec2Model ----
(***************************************************************************)
(* Model of the sales intelligence pipeline of                             *)
(* market_stream/sub_agents/target_org_research/target_research.py:        *)
(* the SequentialAgent sales_intelligence_pipeline, its quality loop       *)
(* (enhanced_sales_evaluator -> SalesEscalationChecker ->                  *)
(* enhanced_sales_search), the session state the stages share, and the     *)
(* source ledger kept by collect_research_sources_callback.                *)
(***************************************************************************)
EXTENDS Integers, Sequences, FiniteSets, TLC

VARIABLES
    max_search_iterations,     \* config.max_search_iterations of this deployment
    pc,                        \* the stage the pipeline runs next
    times_looped,              \* LoopAgent's count of completed loop iterations
    run,                       \* invocations of the pipeline on this session so far
    loop_iteration_count,      \* state["loop_iteration_count"] (absent reads as 0)
    sales_research_evaluation, \* state["sales_research_evaluation"]
    outputs,                   \* the output_key entries of the session state that hold research text
    report,                    \* state["sales_intelligence_agent"], the report text
    report_read,               \* history: the final_report citation_replacement_callback read last
    events,                    \* session.events that carry grounding metadata
    url_to_short_id,           \* state["url_to_short_id"]
    sources,                   \* state["sources"]
    last_pass,                 \* history: what the checker's latest pass read and emitted
    passes,                    \* history: passes of the checker since the counter was absent
    calls,                     \* history: calls of collect_research_sources_callback, counted up to MaxCalls
    collection,                \* the documents of db["projects"], in insertion order
    webhooks,                  \* the status updates the webhook has received, in order
    last_call,                 \* history: the latest call into tools/mongoupload.py and how it ended
    creators,                  \* the callers of create_blank_project: where each one stands in it
    store,                     \* the session states of the projects that run side by side
    fed                        \* history: what each of those projects' stages were fed, in order

vars == <<max_search_iterations, pc, times_looped, run, loop_iteration_count,
          sales_research_evaluation, outputs, report, report_read, events,
          url_to_short_id, sources, last_pass, passes, calls,
          collection, webhooks, last_call, creators, store, fed>>

\* the state of tools/mongoupload.py, and the sessions of the projects side by side
persistence == <<collection, webhooks, last_call, creators>>
tenancy == <<store, fed>>
\* the session the pipeline runs on
session == <<max_search_iterations, pc, times_looped, run, loop_iteration_count,
             sales_research_evaluation, outputs, report, report_read, events,
             url_to_short_id, sources, last_pass, passes, calls>>

---------------------------------------------------------------------------
(* Bounds of the model. *)

\* config.max_search_iterations ranges over 1..MaxConfigIterations
MaxConfigIterations == 3
\* processes that call create_blank_project, and calls of it by each
MaxCallers == 2
MaxCreateCalls == 2
\* invocations of the pipeline on one session
MaxRuns == 2
\* grounding events one pipeline session accumulates
MaxPipelineEvents == 1
\* grounding events the ledger harness accumulates
MaxEvents == 2
\* calls of the ingestion callback in the ledger harness
MaxCalls == 3
\* calls into tools/mongoupload.py
MaxStoreCalls == 2
\* config.max_search_iterations where two projects run side by side
TenancyIterations == 2
\* follow-up queries in one response of the evaluator
MaxQueries == 5

---------------------------------------------------------------------------
(* Values stored under state["sales_research_evaluation"].                 *)
(* kind: "absent" (key missing, None), "empty" (a falsy value: {} or ""),  *)
(* "mapping" (a non-empty dict; grade "none" when it has no 'grade' key),  *)
(* "raw" (a truthy value that is no mapping, such as a non-empty string).  *)

NoGrade == "none"
SalesFeedbackGrades == {"comprehensive", "sales_ready", "needs_improvement", "insufficient"}
ForeignGrades == {"pass", "fail", "excellent"}

AbsentVerdict == [kind |-> "absent", grade |-> NoGrade]
EmptyVerdict == [kind |-> "empty", grade |-> NoGrade]
RawVerdict == [kind |-> "raw", grade |-> NoGrade]
Mapping(g) == [kind |-> "mapping", grade |-> g]

\* what the evaluator can store: a dict validated against SalesFeedback
ValidatedVerdicts == {Mapping(g) : g \in SalesFeedbackGrades}
\* what a session can hold under the key when the pipeline starts
StoredVerdicts ==
    {AbsentVerdict, EmptyVerdict, RawVerdict}
        \cup {Mapping(g) : g \in SalesFeedbackGrades \cup ForeignGrades \cup {NoGrade}}

---------------------------------------------------------------------------
(* SalesEscalationChecker._run_async_impl, as a function of what it reads. *)

\* faulty variant: the pass stores the counter back without the increment
IterationCountNotIncremented(iteration_count) == iteration_count

\* the counter the pass stores back
NextIterationCount(iteration_count) == iteration_count + 1

\* the circuit breaker: it compares the value read, before the increment
BreakerFires(iteration_count, max_iterations) == iteration_count >= max_iterations

\* `not evaluation_result`
Falsy(evaluation_result) == evaluation_result.kind \in {"absent", "empty"}

\* the soft cap of the needs_improvement branch
SoftCap == 2

\* faulty variant: the final else branch escalates instead of continuing the loop
GradeDecisionElseEscalates(grade, iteration_count) ==
    IF grade \in {"comprehensive", "sales_ready"} THEN "ESCALATE"
    ELSE IF grade = "needs_improvement"
         THEN IF iteration_count >= SoftCap THEN "ESCALATE" ELSE "REFINE"
    ELSE "ESCALATE"

\* the escalation logic on evaluation_result.get("grade")
GradeDecision(grade, iteration_count) ==
    IF grade \in {"comprehensive", "sales_ready"} THEN "ESCALATE"
    ELSE IF grade = "needs_improvement"
         THEN IF iteration_count >= SoftCap THEN "ESCALATE" ELSE "REFINE"
    ELSE "REFINE"

\* The event of one pass: "ESCALATE" (Event with escalate=True), "REFINE" (a plain
\* Event), or "RAISED" (evaluation_result.get fails on a value that is no mapping
\* and nothing in the method catches it).
CheckerEvent(iteration_count, evaluation_result, max_iterations) ==
    IF BreakerFires(iteration_count, max_iterations) THEN "ESCALATE"
    ELSE IF Falsy(evaluation_result) THEN "ESCALATE"
    ELSE IF evaluation_result.kind = "raw" THEN "RAISED"
    ELSE GradeDecision(evaluation_result.grade, iteration_count)

---------------------------------------------------------------------------
(* Grounding events and the source ledger.                                 *)
(* A short id "src-N" is kept as the digits of N, the text after "src-".   *)

RECURSIVE Decimal(_)
Decimal(n) == IF n < 10 THEN <<n>> ELSE Append(Decimal(n \div 10), n % 10)

ShortId(id_counter) == Decimal(id_counter)

Put(f, k, v) == [x \in DOMAIN f \cup {k} |-> IF x = k THEN v ELSE f[x]]
EmptyMap == [x \in {} |-> 0]

NoSegment == "<no segment>"
\* chunk.web.uri is None
NoUri == "<no uri>"
\* confidences are kept in hundredths; 50 is the 0.5 of a missing score
DefaultConfidence == 50

WebChunk(u, t, d) == [web |-> TRUE, uri |-> u, title |-> t, domain |-> d]
NonWebChunk == [web |-> FALSE, uri |-> "", title |-> "", domain |-> ""]
Support(text, indices, scores) ==
    [segment |-> text, grounding_chunk_indices |-> indices, confidence_scores |-> scores]
GroundingEvent(chunks, supports) ==
    [grounding_chunks |-> chunks, grounding_supports |-> supports]

\* title = chunk.web.title if chunk.web.title != chunk.web.domain else chunk.web.domain
ChunkTitle(chunk) == IF chunk.title # chunk.domain THEN chunk.title ELSE chunk.domain

\* faulty variant: the url index is not consulted, every sighting counts as new
UrlAlwaysNew(url, index) == TRUE

\* `url not in url_to_short_id`
UrlIsNew(url, index) == url \notin DOMAIN index

\* faulty variant: the id counter is not advanced after a source is minted
MintSourceCounterStuck(acc, chunk) ==
    LET short_id == ShortId(acc.id_counter) IN
    [acc EXCEPT
        !.url_to_short_id = Put(@, chunk.uri, short_id),
        !.sources = Put(@, short_id,
                        [short_id |-> short_id, title |-> ChunkTitle(chunk),
                         url |-> chunk.uri, domain |-> chunk.domain,
                         supported_claims |-> <<>>])]

\* a new url: mint the next short id and create its source
MintSource(acc, chunk) ==
    LET short_id == ShortId(acc.id_counter) IN
    [acc EXCEPT
        !.url_to_short_id = Put(@, chunk.uri, short_id),
        !.sources = Put(@, short_id,
                        [short_id |-> short_id, title |-> ChunkTitle(chunk),
                         url |-> chunk.uri, domain |-> chunk.domain,
                         supported_claims |-> <<>>]),
        !.id_counter = @ + 1]

\* the loop over enumerate(grounding_chunks); i is the 1-based position, i - 1 the idx
RECURSIVE ScanChunks(_, _, _)
ScanChunks(chunks, i, acc) ==
    IF i > Len(chunks) THEN acc
    ELSE IF ~chunks[i].web THEN ScanChunks(chunks, i + 1, acc)
    ELSE LET minted == IF UrlIsNew(chunks[i].uri, acc.url_to_short_id)
                       THEN MintSource(acc, chunks[i]) ELSE acc
             noted == [minted EXCEPT !.chunks_info =
                          Put(@, i - 1, minted.url_to_short_id[chunks[i].uri])]
         IN ScanChunks(chunks, i + 1, noted)

\* faulty variant: every index of a support is paired with the first score
PairedConfidenceFirst(scores, i) == IF scores # <<>> THEN scores[1] ELSE DefaultConfidence

\* confidence_scores[i] if i < len(confidence_scores) else 0.5   (i is 1-based here)
PairedConfidence(scores, i) == IF i <= Len(scores) THEN scores[i] ELSE DefaultConfidence

\* faulty variant: the list is cut to the three claims appended last
AppendClaimKeepsLatest(srcs, short_id, claim) ==
    LET claims == Append(srcs[short_id].supported_claims, claim) IN
    [srcs EXCEPT ![short_id].supported_claims =
        IF Len(claims) > 3 THEN SubSeq(claims, Len(claims) - 2, Len(claims)) ELSE claims]

\* faulty variant: the claim is appended to every source of the map
AppendClaimToAll(srcs, short_id, claim) ==
    [s \in DOMAIN srcs |-> [srcs[s] EXCEPT !.supported_claims = Append(@, claim)]]

\* sources[short_id]["supported_claims"].append(...)
AppendClaim(srcs, short_id, claim) ==
    [srcs EXCEPT ![short_id].supported_claims = Append(@, claim)]

\* the loop over enumerate(chunk_indices) of one support
RECURSIVE ScanIndices(_, _, _)
ScanIndices(support, i, acc) ==
    IF i > Len(support.grounding_chunk_indices) THEN acc
    ELSE LET chunk_idx == support.grounding_chunk_indices[i] IN
         IF chunk_idx \in DOMAIN acc.chunks_info
         THEN ScanIndices(support, i + 1,
                  [acc EXCEPT !.sources =
                      AppendClaim(@, acc.chunks_info[chunk_idx],
                          [text_segment |-> IF support.segment = NoSegment
                                            THEN "" ELSE support.segment,
                           confidence |-> PairedConfidence(support.confidence_scores, i)])])
         ELSE ScanIndices(support, i + 1, acc)

RECURSIVE ScanSupports(_, _, _)
ScanSupports(supports, j, acc) ==
    IF j > Len(supports) THEN acc
    ELSE ScanSupports(supports, j + 1, ScanIndices(supports[j], 1, acc))

\* the loop over session.events; an event without grounding chunks is skipped whole
RECURSIVE ScanEvents(_, _, _)
ScanEvents(evs, k, acc) ==
    IF k > Len(evs) THEN acc
    ELSE IF evs[k].grounding_chunks = <<>> THEN ScanEvents(evs, k + 1, acc)
    ELSE LET chunked == ScanChunks(evs[k].grounding_chunks, 1,
                                   [acc EXCEPT !.chunks_info = EmptyMap])
         IN ScanEvents(evs, k + 1, ScanSupports(evs[k].grounding_supports, 1, chunked))

\* collect_research_sources_callback: the maps it stores back into the state
CollectResearchSources(evs, index, srcs) ==
    LET done == ScanEvents(evs, 1,
                    [url_to_short_id |-> index, sources |-> srcs,
                     id_counter |-> Cardinality(DOMAIN index) + 1,
                     chunks_info |-> EmptyMap])
    IN [url_to_short_id |-> done.url_to_short_id, sources |-> done.sources]

---------------------------------------------------------------------------
(* citation_replacement_callback. A report text is a sequence of tokens: words,  *)
(* whitespace, punctuation marks of [.,;:], <cite source="src-N" /> markers, and *)
(* what the callback writes: reference links, the References heading and its     *)
(* entries.                                                                      *)

Token(kind, id, n, url, title, domain) ==
    [kind |-> kind, id |-> id, n |-> n, url |-> url, title |-> title, domain |-> domain]
Word == Token("word", <<>>, 0, "", "", "")
Space == Token("space", <<>>, 0, "", "", "")
Punct == Token("punct", <<>>, 0, "", "", "")
\* <cite source="src-N" />, N given by its digits
Cite(id) == Token("cite", id, 0, "", "", "")
\* [<a href="#refK">K</a>]
Link(k) == Token("link", <<>>, k, "", "", "")
\* "\n\n## References\n"
Heading == Token("heading", <<>>, 0, "", "", "")
\* <p id="refK">[K] <a href="URL">TITLE</a> (DOMAIN)</p>
Reference(k, source) == Token("ref", <<>>, k, source.url, source.title, source.domain)

\* the order of the strings "src-" + digits under sorted()
RECURSIVE LexLess(_, _)
LexLess(a, b) ==
    IF a = <<>> THEN b # <<>>
    ELSE IF b = <<>> THEN FALSE
    ELSE IF Head(a) # Head(b) THEN Head(a) < Head(b)
    ELSE LexLess(Tail(a), Tail(b))

\* short_id_to_index: enumerate(sorted(sources.keys()), start=1)
ShortIdToIndex(srcs) ==
    [s \in DOMAIN srcs |-> 1 + Cardinality({k \in DOMAIN srcs : LexLess(k, s)})]

\* faulty variant: a marker of an unknown source is left in the text
TagReplacerKeepsUnknown(token, short_id_to_index) ==
    IF token.kind # "cite" THEN <<token>>
    ELSE IF token.id \notin DOMAIN short_id_to_index THEN <<token>>
    ELSE <<Link(short_id_to_index[token.id])>>

\* tag_replacer on one token: a marker becomes a link, or nothing when its id is unknown
TagReplacer(token, short_id_to_index) ==
    IF token.kind # "cite" THEN <<token>>
    ELSE IF token.id \notin DOMAIN short_id_to_index THEN <<>>
    ELSE <<Link(short_id_to_index[token.id])>>

RECURSIVE ReplaceTags(_, _)
ReplaceTags(text, short_id_to_index) ==
    IF text = <<>> THEN <<>>
    ELSE TagReplacer(Head(text), short_id_to_index)
             \o ReplaceTags(Tail(text), short_id_to_index)

\* faulty variant: only the one whitespace character next to the mark is dropped
BeforePunctAdjacent(text, i) ==
    /\ text[i].kind = "space"
    /\ i < Len(text)
    /\ text[i + 1].kind = "punct"

\* re.sub(r"\s+([.,;:])", r"\1", ...): whitespace i belongs to a run that ends at a mark
BeforePunct(text, i) ==
    /\ text[i].kind = "space"
    /\ \E j \in (i + 1)..Len(text) :
          /\ text[j].kind = "punct"
          /\ \A k \in i..(j - 1) : text[k].kind = "space"

RECURSIVE CleanFrom(_, _)
CleanFrom(text, i) ==
    IF i > Len(text) THEN <<>>
    ELSE IF BeforePunct(text, i) THEN CleanFrom(text, i + 1)
    ELSE <<text[i]>> \o CleanFrom(text, i + 1)

\* faulty variant: the entries are numbered in index order but describe the sources
\* in the opposite order
ReferencesReversed(srcs, short_id_to_index) ==
    <<Heading>> \o
    [k \in 1..Cardinality(DOMAIN srcs) |->
        Reference(k, srcs[CHOOSE s \in DOMAIN srcs :
                             short_id_to_index[s] = Cardinality(DOMAIN srcs) + 1 - k])]

\* the References section, one entry per source in index order
References(srcs, short_id_to_index) ==
    <<Heading>> \o
        [k \in 1..Cardinality(DOMAIN srcs) |->
            Reference(k, srcs[CHOOSE s \in DOMAIN srcs : short_id_to_index[s] = k])]

\* the text citation_replacement_callback stores and returns
CitationReplacement(final_report, srcs) ==
    LET short_id_to_index == ShortIdToIndex(srcs) IN
    CleanFrom(ReplaceTags(final_report, short_id_to_index), 1)
        \o References(srcs, short_id_to_index)

\* faulty variant: the sources no marker of the report names are dropped from the map
SourcesPrunedToCited(final_report, srcs) ==
    LET cited == {final_report[i].id :
                     i \in {j \in DOMAIN final_report : final_report[j].kind = "cite"}}
    IN [s \in DOMAIN srcs \cap cited |-> srcs[s]]

\* state["sources"] after the callback: it reads sources.keys() and sources[short_id]
\* and stores nothing under "sources"
SourcesAfterReplacement(final_report, srcs) == srcs

---------------------------------------------------------------------------
(* The stages of sales_intelligence_pipeline and what they write.          *)
(* The text an LLM stage returns is opaque: it is kept as the set of facts *)
(* it states, so that one text extends another when it holds its facts.    *)

\* the stage ended without a final response text: its output_key is not written
NoText == {}

OutputKeys == {"sales_report_sections", "enhanced_sales_research_findings",
               "stakeholder_intelligence", "competitive_intelligence",
               "sales_research_findings"}

\* LlmAgent(output_key=key): the final response text replaces the value under key
WriteOutput(out, key, text) == IF text = NoText THEN out ELSE [out EXCEPT ![key] = text]

\* a response without grounding metadata adds nothing the callback reads
NoGrounding == GroundingEvent(<<>>, <<>>)

NoPass == [ran |-> FALSE, read |-> 0, stored |-> 0,
           verdict |-> AbsentVerdict, event |-> "NONE"]

\* faulty variant: the loop goes on to the gap-fill researcher after an escalate event
AfterCheckerIgnoresEscalate(event) ==
    CASE event = "ESCALATE" -> "enhanced_sales_search"
      [] event = "REFINE" -> "enhanced_sales_search"
      [] event = "RAISED" -> "crashed"

\* LoopAgent: an escalate event ends the loop, an exception leaves the pipeline
AfterChecker(event) ==
    CASE event = "ESCALATE" -> "enhanced_sales_report_composer"
      [] event = "REFINE" -> "enhanced_sales_search"
      [] event = "RAISED" -> "crashed"

\* faulty variant: the pipeline ends with the loop, the stage after it is left out
AfterLoopIterationSkipsComposer(looped, max_iterations) ==
    IF looped < max_iterations THEN "enhanced_sales_evaluator"
    ELSE "done"

\* LoopAgent(max_iterations=config.max_search_iterations): after the last sub-agent
\* of an iteration the loop runs again while times_looped < max_iterations
AfterLoopIteration(looped, max_iterations) ==
    IF looped < max_iterations THEN "enhanced_sales_evaluator"
    ELSE "enhanced_sales_report_composer"

\* a stage with the google_search tool and
\* after_agent_callback=collect_research_sources_callback
SearchStage(name, key, texts, groundings) ==
    /\ pc = name
    /\ \E text \in texts, g \in groundings \cup {NoGrounding} :
          /\ g # NoGrounding => Len(events) < MaxPipelineEvents
          /\ events' = IF g = NoGrounding THEN events ELSE Append(events, g)
          /\ outputs' = WriteOutput(outputs, key, text)
    /\ LET ledger == CollectResearchSources(events', url_to_short_id, sources) IN
          /\ url_to_short_id' = ledger.url_to_short_id
          /\ sources' = ledger.sources
    /\ calls' = IF calls < MaxCalls THEN calls + 1 ELSE calls

sales_section_planner(texts) ==
    /\ pc = "sales_section_planner"
    /\ \E text \in texts :
          outputs' = WriteOutput(outputs, "sales_report_sections", text)
    /\ pc' = "enhanced_sales_researcher"
    /\ UNCHANGED <<persistence, tenancy, report, report_read, max_search_iterations, times_looped, run, loop_iteration_count,
                   sales_research_evaluation, events, url_to_short_id, sources,
                   last_pass, passes, calls>>

enhanced_sales_researcher(texts, groundings) ==
    /\ SearchStage("enhanced_sales_researcher", "enhanced_sales_research_findings",
                   texts, groundings)
    /\ pc' = "stakeholder_discovery_agent"
    /\ UNCHANGED <<persistence, tenancy, report, report_read, max_search_iterations, times_looped, run, loop_iteration_count,
                   sales_research_evaluation, last_pass, passes>>

stakeholder_discovery_agent(texts, groundings) ==
    /\ SearchStage("stakeholder_discovery_agent", "stakeholder_intelligence",
                   texts, groundings)
    /\ pc' = "competitive_intelligence_agent"
    /\ UNCHANGED <<persistence, tenancy, report, report_read, max_search_iterations, times_looped, run, loop_iteration_count,
                   sales_research_evaluation, last_pass, passes>>

\* the last research stage; the LoopAgent starts with times_looped = 0
competitive_intelligence_agent(texts, groundings) ==
    /\ SearchStage("competitive_intelligence_agent", "competitive_intelligence",
                   texts, groundings)
    /\ pc' = "enhanced_sales_evaluator"
    /\ times_looped' = 0
    /\ UNCHANGED <<persistence, tenancy, report, report_read, max_search_iterations, run, loop_iteration_count,
                   sales_research_evaluation, last_pass, passes>>

\* output_schema=SalesFeedback, output_key="sales_research_evaluation": a final
\* response is stored as a validated mapping; without one the key keeps its value
enhanced_sales_evaluator ==
    /\ pc = "enhanced_sales_evaluator"
    /\ \/ \E verdict \in ValidatedVerdicts : sales_research_evaluation' = verdict
       \/ UNCHANGED sales_research_evaluation
    /\ pc' = "sales_escalation_checker"
    /\ UNCHANGED <<persistence, tenancy, report, report_read, max_search_iterations, times_looped, run, loop_iteration_count,
                   outputs, events, url_to_short_id, sources, last_pass, passes, calls>>

SalesEscalationChecker ==
    /\ pc = "sales_escalation_checker"
    /\ LET iteration_count == loop_iteration_count
           event == CheckerEvent(iteration_count, sales_research_evaluation,
                                 max_search_iterations)
       IN /\ loop_iteration_count' = NextIterationCount(iteration_count)
          /\ last_pass' = [ran |-> TRUE, read |-> iteration_count,
                           stored |-> loop_iteration_count',
                           verdict |-> sales_research_evaluation, event |-> event]
          /\ pc' = AfterChecker(event)
    /\ passes' = passes + 1
    /\ UNCHANGED <<persistence, tenancy, report, report_read, max_search_iterations, times_looped, run, sales_research_evaluation,
                   outputs, events, url_to_short_id, sources, calls>>

\* the gap-fill researcher, last sub-agent of a loop iteration
enhanced_sales_search(texts, groundings) ==
    /\ SearchStage("enhanced_sales_search", "sales_research_findings", texts, groundings)
    /\ times_looped' = times_looped + 1
    /\ pc' = AfterLoopIteration(times_looped', max_search_iterations)
    /\ UNCHANGED <<persistence, tenancy, report, report_read, max_search_iterations, run, loop_iteration_count,
                   sales_research_evaluation, last_pass, passes>>

\* output_key="sales_intelligence_agent", after_agent_callback=
\* citation_replacement_callback: the callback rewrites whatever the key holds, the
\* value of an earlier invocation when this one ended without a final response
enhanced_sales_report_composer(texts) ==
    /\ pc = "enhanced_sales_report_composer"
    /\ \E text \in texts \cup {<<>>} :
          /\ report_read' = IF text = <<>> THEN report ELSE text
          /\ report' = CitationReplacement(report_read', sources)
          /\ sources' = SourcesAfterReplacement(report_read', sources)
    /\ pc' = "done"
    /\ UNCHANGED <<persistence, tenancy, max_search_iterations, times_looped, run,
                   loop_iteration_count, sales_research_evaluation, outputs, events,
                   url_to_short_id, last_pass, passes, calls>>

LlmStages == {"sales_section_planner", "enhanced_sales_researcher",
              "stakeholder_discovery_agent", "competitive_intelligence_agent",
              "enhanced_sales_evaluator", "enhanced_sales_search",
              "enhanced_sales_report_composer"}

\* a model call that raises (or an evaluator response that fails SalesFeedback
\* validation) is caught nowhere in the pipeline
LlmCallFails ==
    /\ pc \in LlmStages
    /\ pc' = "crashed"
    /\ UNCHANGED <<persistence, tenancy, report, report_read, max_search_iterations, times_looped, run, loop_iteration_count,
                   sales_research_evaluation, outputs, events, url_to_short_id,
                   sources, last_pass, passes, calls>>

\* The next invocation of the pipeline on the same session: the LoopAgent counts
\* from 0 again; the keys stored through output_key and callback_context.state and
\* session.events persist. The counter is written straight into ctx.session.state:
\* it persists when the next invocation is handed the same session object, and is
\* absent again when the session service hands out a copy of the stored session.
RunAgain ==
    /\ pc = "done"
    /\ run < MaxRuns
    /\ run' = run + 1
    /\ pc' = "sales_section_planner"
    /\ times_looped' = 0
    /\ \/ UNCHANGED <<loop_iteration_count, passes>>
       \/ loop_iteration_count' = 0 /\ passes' = 0
    /\ UNCHANGED <<persistence, tenancy, report, report_read, max_search_iterations, sales_research_evaluation, outputs, events,
                   url_to_short_id, sources, last_pass, calls>>

---------------------------------------------------------------------------
(* tools/mongoupload.py: the project documents and the status webhook.       *)
(* A document is a mapping from field names to strings, "project_id" among   *)
(* them; a webhook message is the project id of the url and the one key and  *)
(* value of the JSON body.                                                    *)

\* a Python None where a string is expected
None == "<None>"
\* the key "project_id" is missing from the callback state
Absent == "<absent>"
NotApplicable == "<n/a>"

\* a project id that arrives wrapped in double quotes
QuotedP1 == "\"p1\""
\* project_id.replace('"', '')
StripQuotes(project_id) == IF project_id = QuotedP1 THEN "p1" ELSE project_id

\* the document create_blank_project inserts
BlankDocument(project_id) ==
    [f \in {"project_id", "client_org_research", "prospect_research", "market_segment",
            "target_org_research", "client_org_research_html", "market_context_html",
            "prospect_research_html", "market_segment_html", "target_org_research_html"} |->
        IF f = "project_id" THEN project_id ELSE ""]

allowed_fields ==
    {"client_org_research", "market_context", "prospect_research", "market_segment",
     "target_org_research", "client_org_research_html", "market_context_html",
     "prospect_research_html", "market_segment_html", "target_org_research_html"}

\* faulty variant: the report type is not checked against the allow-list
ReportTypeAlwaysAllowed(report_type) == TRUE

\* the negation of `report_type not in allowed_fields`
ReportTypeAllowed(report_type) == report_type \in allowed_fields

\* `not mongo_uri`: the variable is unset or empty
NotSet(mongo_uri) == mongo_uri = None \/ mongo_uri = ""

\* requests.put(.../project-status-update/{project_id}/, data={key: value}) inside
\* try/except: a project id that is no string and a failing request leave no message
StatusPut(hooks, project_id, key, value, network_ok) ==
    IF project_id = None \/ ~network_ok THEN hooks
    ELSE Append(hooks, [project_id |-> StripQuotes(project_id), key |-> key, value |-> value])

AnnounceMarkdownUpload(hooks, project_id, report_type, network_ok) ==
    StatusPut(hooks, project_id, "sub_status", report_type \o " updated", network_ok)

AnnounceHtmlUpload(hooks, project_id, report_type, network_ok) ==
    StatusPut(hooks, project_id, "agent_status", report_type \o " updated", network_ok)

\* project_id = callback_context.state["project_id"] stands before the try
AnnounceMarkdownFinish(hooks, state_project_id, network_ok) ==
    IF state_project_id = Absent THEN [webhooks |-> hooks, raised |-> "KeyError"]
    ELSE [webhooks |-> StatusPut(hooks, state_project_id, "sub_status", "Completed",
                                 network_ok),
          raised |-> "none"]

AnnounceHtmlFinish(hooks, state_project_id, network_ok) ==
    IF state_project_id = Absent THEN [webhooks |-> hooks, raised |-> "KeyError"]
    ELSE [webhooks |-> StatusPut(hooks, state_project_id, "agent_status", "Completed",
                                 network_ok),
          raised |-> "none"]

\* {"$set": {report_type: report, f"{report_type}_html": html_report}}
SetFields(document, report_type, report_text, html_report) ==
    Put(Put(document, report_type, report_text), report_type \o "_html", html_report)

\* update_project_report: the collection and the webhook after the call, and the
\* exception it ends with
UpdateProjectReport(coll, hooks, project_id, report_text, report_type, html_report, mongo_uri, network_ok) ==
    IF ~ReportTypeAllowed(report_type)
    THEN [collection |-> coll, webhooks |-> hooks, raised |-> "ValueError"]
    ELSE IF NotSet(mongo_uri)
    THEN [collection |-> coll, webhooks |-> hooks, raised |-> "ValueError"]
    ELSE LET matching == {i \in DOMAIN coll : coll[i]["project_id"] = project_id}
             matched_count == IF matching = {} THEN 0 ELSE 1
             first == CHOOSE i \in matching : \A j \in matching : i <= j
         IN [collection |->
                IF matched_count = 0 THEN coll
                ELSE [coll EXCEPT ![first] = SetFields(@, report_type, report_text, html_report)],
             webhooks |->
                IF html_report # None \/ html_report # ""
                THEN AnnounceMarkdownUpload(hooks, project_id, report_type, network_ok)
                ELSE AnnounceHtmlUpload(hooks, project_id, report_type, network_ok),
             raised |-> IF matched_count = 0 THEN "ValueError" ELSE "none"]

NoCall == [n |-> 0, op |-> "none", project_id |-> NotApplicable,
           report_type |-> NotApplicable, mongo_uri |-> NotApplicable, raised |-> "none"]

\* the processes that may call create_blank_project at the same time
Callers == 1..MaxCallers

\* a caller outside create_blank_project, after calls calls of it
Outside(calls_made) == [at |-> "outside", project_id |-> NotApplicable, calls |-> calls_made]

\* the store holds the blank document of project p1 and nothing has been called
PersistenceIdle ==
    /\ collection = <<BlankDocument("p1")>>
    /\ webhooks = <<>>
    /\ last_call = NoCall
    /\ creators = [c \in Callers |-> Outside(0)]

\* create_blank_project up to its test: existing_doc = collection.find_one(...);
\* with a document found the call returns, without one it goes on to the insert
create_blank_project_find_one(project_ids) ==
    /\ \E c \in Callers, project_id \in project_ids :
          /\ creators[c].at = "outside"
          /\ creators[c].calls < MaxCreateCalls
          /\ LET existing_doc == \E i \in DOMAIN collection :
                                     collection[i]["project_id"] = project_id
             IN creators' = [creators EXCEPT ![c] =
                    IF existing_doc THEN Outside(@.calls + 1)
                    ELSE [at |-> "insert_one", project_id |-> project_id, calls |-> @.calls]]
    /\ UNCHANGED <<collection, webhooks, last_call, session, tenancy>>

\* the rest of create_blank_project: collection.insert_one(document)
create_blank_project_insert_one ==
    /\ \E c \in Callers :
          /\ creators[c].at = "insert_one"
          /\ collection' = Append(collection, BlankDocument(creators[c].project_id))
          /\ creators' = [creators EXCEPT ![c] = Outside(@.calls + 1)]
    /\ UNCHANGED <<webhooks, last_call, session, tenancy>>

update_project_report(project_ids, reports, report_types, html_reports, mongo_uris) ==
    /\ last_call.n < MaxStoreCalls
    /\ \E project_id \in project_ids, report_text \in reports, report_type \in report_types,
          html_report \in html_reports, mongo_uri \in mongo_uris, network_ok \in BOOLEAN :
          LET after == UpdateProjectReport(collection, webhooks, project_id, report_text,
                                           report_type, html_report, mongo_uri, network_ok)
          IN /\ collection' = after.collection
             /\ webhooks' = after.webhooks
             /\ last_call' = [n |-> last_call.n + 1, op |-> "update_project_report",
                              project_id |-> project_id, report_type |-> report_type,
                              mongo_uri |-> mongo_uri, raised |-> after.raised]
    /\ UNCHANGED <<creators, session, tenancy>>

announce_markdown_upload(project_ids, report_types) ==
    /\ last_call.n < MaxStoreCalls
    /\ \E project_id \in project_ids, report_type \in report_types, network_ok \in BOOLEAN :
          /\ webhooks' = AnnounceMarkdownUpload(webhooks, project_id, report_type, network_ok)
          /\ last_call' = [n |-> last_call.n + 1, op |-> "announce_markdown_upload",
                           project_id |-> project_id, report_type |-> report_type,
                           mongo_uri |-> NotApplicable, raised |-> "none"]
    /\ UNCHANGED <<collection, creators, session, tenancy>>

announce_html_upload(project_ids, report_types) ==
    /\ last_call.n < MaxStoreCalls
    /\ \E project_id \in project_ids, report_type \in report_types, network_ok \in BOOLEAN :
          /\ webhooks' = AnnounceHtmlUpload(webhooks, project_id, report_type, network_ok)
          /\ last_call' = [n |-> last_call.n + 1, op |-> "announce_html_upload",
                           project_id |-> project_id, report_type |-> report_type,
                           mongo_uri |-> NotApplicable, raised |-> "none"]
    /\ UNCHANGED <<collection, creators, session, tenancy>>

announce_markdown_finish(state_project_ids) ==
    /\ last_call.n < MaxStoreCalls
    /\ \E state_project_id \in state_project_ids, network_ok \in BOOLEAN :
          LET after == AnnounceMarkdownFinish(webhooks, state_project_id, network_ok) IN
          /\ webhooks' = after.webhooks
          /\ last_call' = [n |-> last_call.n + 1, op |-> "announce_markdown_finish",
                           project_id |-> state_project_id, report_type |-> NotApplicable,
                           mongo_uri |-> NotApplicable, raised |-> after.raised]
    /\ UNCHANGED <<collection, creators, session, tenancy>>

announce_html_finish(state_project_ids) ==
    /\ last_call.n < MaxStoreCalls
    /\ \E state_project_id \in state_project_ids, network_ok \in BOOLEAN :
          LET after == AnnounceHtmlFinish(webhooks, state_project_id, network_ok) IN
          /\ webhooks' = after.webhooks
          /\ last_call' = [n |-> last_call.n + 1, op |-> "announce_html_finish",
                           project_id |-> state_project_id, report_type |-> NotApplicable,
                           mongo_uri |-> NotApplicable, raised |-> after.raised]
    /\ UNCHANGED <<collection, creators, session, tenancy>>

\* no project runs beside the session of the pipeline
TenancyIdle ==
    /\ store = <<>>
    /\ fed = <<>>

---------------------------------------------------------------------------
(* The pipeline on one session. *)

\* the grounding event a search of the pipeline specification may return
PipelineEvents ==
    {GroundingEvent(<<WebChunk("A", "tA", "dA")>>, <<Support("s1", <<0>>, <<90>>)>>)}

\* the values config.max_search_iterations may take
ConfigMaxSearchIterations == 1..MaxConfigIterations

Init ==
    /\ max_search_iterations \in ConfigMaxSearchIterations
    /\ pc = "sales_section_planner"
    /\ times_looped = 0
    /\ run = 1
    /\ loop_iteration_count = 0
    /\ sales_research_evaluation \in StoredVerdicts
    /\ outputs = [k \in OutputKeys |-> NoText]
    /\ report = <<>>
    /\ report_read = <<>>
    /\ events = <<>>
    /\ url_to_short_id = EmptyMap
    /\ sources = EmptyMap
    /\ last_pass = NoPass
    /\ passes = 0
    /\ calls = 0
    /\ PersistenceIdle
    /\ TenancyIdle

\* the texts the stages of the pipeline specification may return: one plan and one
\* text per foundation stage, and for the gap-fill researcher a text, a text that
\* extends it, or none
StageTexts == {{"f1"}}
GapFillTexts == {{"f1"}, {"f1", "f2"}, NoText}
\* the reports the composer may return: a marker of the first source, and a marker
\* of a source the ledger cannot hold, set off by whitespace before the full stop
ComposerReports ==
    {<<Word, Cite(<<1>>), Punct>>, <<Word, Space, Cite(<<3>>), Space, Punct>>}

Next ==
    \/ sales_section_planner(StageTexts)
    \/ enhanced_sales_researcher(StageTexts, PipelineEvents)
    \/ stakeholder_discovery_agent(StageTexts, PipelineEvents)
    \/ competitive_intelligence_agent(StageTexts, PipelineEvents)
    \/ enhanced_sales_evaluator
    \/ SalesEscalationChecker
    \/ enhanced_sales_search(GapFillTexts, PipelineEvents)
    \/ enhanced_sales_report_composer(ComposerReports)
    \/ LlmCallFails
    \/ RunAgain

Spec == Init /\ [][Next]_vars

---------------------------------------------------------------------------
(* The quality loop: claims C1 to C9. *)

\* C1: loop termination. Whatever the verdicts, the quality loop reaches ESCALATE:
\* when the report composer is the next stage, the checker's latest pass has
\* emitted an escalate event.
C1_LoopReachesEscalate ==
    pc = "enhanced_sales_report_composer" => last_pass.event = "ESCALATE"

\* C2: circuit breaker. A pass whose incremented counter is >= max_search_iterations
\* emits an escalate event whatever verdict the evaluator stored.
C2_BreakerOnIncrementedCounter ==
    (/\ last_pass.ran
     /\ last_pass.stored >= max_search_iterations
     /\ last_pass.verdict \in ValidatedVerdicts)
        => last_pass.event = "ESCALATE"

\* the verdicts C3 calls missing or unparsable
BadVerdicts ==
    {AbsentVerdict, EmptyVerdict} \cup {Mapping(g) : g \in ForeignGrades \cup {NoGrade}}

\* C3: fail-open on a bad verdict. When the breaker has not fired and the stored
\* verdict is absent, empty, a mapping without a grade or a mapping whose grade is
\* outside the four enum values, the pass emits ESCALATE.
C3_FailOpenOnBadVerdict ==
    (/\ last_pass.ran
     /\ last_pass.stored < max_search_iterations
     /\ last_pass.verdict \in BadVerdicts)
        => last_pass.event = "ESCALATE"

\* C4: the counter is incremented by exactly one in every pass, on every branch,
\* and is stored also by a pass that fails afterwards: after k passes it equals k.
C4_CounterCountsPasses ==
    /\ loop_iteration_count = passes
    /\ last_pass.ran => last_pass.stored = last_pass.read + 1
    /\ last_pass.event = "RAISED" => loop_iteration_count = last_pass.stored

\* C4 witness: the breaker branch has run (in a later invocation on the session)
\* and the counter has counted that pass too.
C4_Witness ==
    /\ last_pass.ran
    /\ BreakerFires(last_pass.read, max_search_iterations)
    /\ passes = last_pass.read + 1
    /\ passes >= 2

\* C5: when the breaker has not fired, each of the grades pass, comprehensive and
\* sales_ready makes the pass emit ESCALATE.
C5_GoodEnoughGradesEscalate ==
    (/\ last_pass.ran
     /\ last_pass.stored < max_search_iterations
     /\ last_pass.verdict \in {Mapping("pass"), Mapping("comprehensive"),
                               Mapping("sales_ready")})
        => last_pass.event = "ESCALATE"

\* C6: when the breaker has not fired and the grade is needs_improvement, the pass
\* emits REFINE while the incremented counter is below the soft cap and ESCALATE
\* once it is >= the soft cap.
C6_SoftCapOnIncrementedCounter ==
    (/\ last_pass.ran
     /\ last_pass.stored < max_search_iterations
     /\ last_pass.verdict = Mapping("needs_improvement"))
        => last_pass.event = (IF last_pass.stored >= SoftCap THEN "ESCALATE" ELSE "REFINE")

\* C7: when the breaker has not fired and the grade is fail or insufficient, the
\* pass emits a plain (REFINE) event, for every counter value below
\* max_search_iterations.
C7_WorstGradesRefine ==
    (/\ last_pass.ran
     /\ last_pass.read < max_search_iterations
     /\ last_pass.verdict \in {Mapping("fail"), Mapping("insufficient")})
        => last_pass.event = "REFINE"

\* C7 witness: the last pass the breaker allows read the grade insufficient and
\* continued the loop.
C7_Witness ==
    /\ last_pass.ran
    /\ last_pass.read >= 1
    /\ last_pass.read = max_search_iterations - 1
    /\ last_pass.verdict = Mapping("insufficient")
    /\ last_pass.event = "REFINE"

\* C8: an exception raised while the checker inspects the session state is caught
\* inside the checker and becomes an ESCALATE event: no pass ends by raising.
C8_CheckerNeverRaises ==
    last_pass.event # "RAISED"

FindingsKeys == {"enhanced_sales_research_findings", "stakeholder_intelligence",
                 "competitive_intelligence", "sales_research_findings"}

\* C9: a REFINE pass merges without discarding. After the gap-fill researcher has
\* run, every findings value of the state is unchanged or extended: the text under
\* each findings key still holds every fact it held before.
C9_RefineKeepsPriorFindings ==
    [][(pc = "enhanced_sales_search" /\ pc' # "crashed")
          => \A k \in FindingsKeys : outputs[k] \subseteq outputs'[k]]_vars

---------------------------------------------------------------------------
(* The source ledger on its own: any sequence of grounding events arriving in    *)
(* session.events and of calls of collect_research_sources_callback.             *)

ChunkA == WebChunk("A", "tA", "dA")
\* the url of ChunkA under another title
ChunkA2 == WebChunk("A", "tA2", "dA")
\* a chunk whose title is its domain
ChunkB == WebChunk("B", "dB", "dB")

\* a web chunk that carries a title and no uri
ChunkNoUri == WebChunk(NoUri, "tN", "dN")

LedgerChunkLists ==
    {<<ChunkA>>, <<ChunkA, ChunkB>>, <<ChunkB, ChunkA2>>, <<NonWebChunk, ChunkA>>,
     <<ChunkNoUri, ChunkA>>, <<>>}
LedgerSupportLists ==
    {<<>>,
     <<Support("s1", <<0>>, <<90>>)>>,
     <<Support("s2", <<0, 1>>, <<80>>), Support(NoSegment, <<1, 2>>, <<>>)>>,
     <<Support("s3", <<0>>, <<70>>), Support("s4", <<1>>, <<60>>)>>}
LedgerEvents ==
    {GroundingEvent(c, s) : c \in LedgerChunkLists, s \in LedgerSupportLists}

\* a model response with grounding metadata is appended to session.events
AgentEmitsGroundingEvent(groundings) ==
    /\ Len(events) < MaxEvents
    /\ \E g \in groundings : events' = Append(events, g)
    /\ UNCHANGED <<persistence, tenancy, report, report_read, max_search_iterations, pc, times_looped, run, loop_iteration_count,
                   sales_research_evaluation, outputs, url_to_short_id, sources,
                   last_pass, passes, calls>>

\* the after-agent callback of a search stage runs over the whole of session.events
collect_research_sources_callback ==
    /\ calls < MaxCalls
    /\ LET ledger == CollectResearchSources(events, url_to_short_id, sources) IN
          /\ url_to_short_id' = ledger.url_to_short_id
          /\ sources' = ledger.sources
    /\ calls' = calls + 1
    /\ UNCHANGED <<persistence, tenancy, report, report_read, max_search_iterations, pc, times_looped, run, loop_iteration_count,
                   sales_research_evaluation, outputs, events, last_pass, passes>>

InitLedger ==
    /\ Init
    /\ max_search_iterations = 1
    /\ sales_research_evaluation = AbsentVerdict

NextLedger ==
    \/ AgentEmitsGroundingEvent(LedgerEvents)
    \/ collect_research_sources_callback

SpecLedger == InitLedger /\ [][NextLedger]_vars

\* the urls of the web chunks of a grounding event
WebUrls(event) ==
    {event.grounding_chunks[i].uri :
        i \in {j \in DOMAIN event.grounding_chunks : event.grounding_chunks[j].web}}

\* C10: dedup invariant. Each url of the index has exactly one entry in the source
\* map, the entry its short id names; no source lacks an index entry, and the map
\* holds as many sources as the index holds urls, each a url of some event.
C10_DedupInvariant ==
    /\ \A u \in DOMAIN url_to_short_id :
          /\ Cardinality({s \in DOMAIN sources : sources[s].url = u}) = 1
          /\ url_to_short_id[u] \in DOMAIN sources
          /\ sources[url_to_short_id[u]].url = u
          /\ \E k \in DOMAIN events : u \in WebUrls(events[k])
    /\ \A s \in DOMAIN sources :
          /\ sources[s].url \in DOMAIN url_to_short_id
          /\ sources[s].short_id = s
    /\ Cardinality(DOMAIN sources) = Cardinality(DOMAIN url_to_short_id)

\* C10 witness: url A was sighted in two events and by two calls, next to url B.
C10_Witness ==
    /\ Len(events) = 2
    /\ "A" \in WebUrls(events[1]) /\ "A" \in WebUrls(events[2])
    /\ calls >= 2
    /\ DOMAIN url_to_short_id = {"A", "B"}
    /\ Cardinality(DOMAIN sources) = 2

\* the places (event, chunk position) where url u is sighted in session.events
Sightings(u) ==
    {p \in UNION {{<<k, i>> : i \in DOMAIN events[k].grounding_chunks} : k \in DOMAIN events} :
        /\ events[p[1]].grounding_chunks[p[2]].web
        /\ events[p[1]].grounding_chunks[p[2]].uri = u}
\* place p comes before place q in the order the callback walks the events
Earlier(p, q) == p[1] < q[1] \/ (p[1] = q[1] /\ p[2] < q[2])
FirstSighting(u) == CHOOSE p \in Sightings(u) : \A q \in Sightings(u) : q = p \/ Earlier(p, q)
\* u is the k-th known url by first sighting
FirstSeenRank(u) ==
    1 + Cardinality({v \in DOMAIN url_to_short_id :
                        Earlier(FirstSighting(v), FirstSighting(u))})

\* C11: short ids are unique and minted in first-seen order. With n known urls the
\* ids in use are exactly src-1 .. src-n, in the index and as keys of the source
\* map; no two urls share an id, and the k-th url first seen carries src-k.
C11_IdsInFirstSeenOrder ==
    LET n == Cardinality(DOMAIN url_to_short_id) IN
    /\ {url_to_short_id[u] : u \in DOMAIN url_to_short_id} = {ShortId(k) : k \in 1..n}
    /\ DOMAIN sources = {ShortId(k) : k \in 1..n}
    /\ \A u, v \in DOMAIN url_to_short_id :
          u # v => url_to_short_id[u] # url_to_short_id[v]
    /\ \A u \in DOMAIN url_to_short_id : url_to_short_id[u] = ShortId(FirstSeenRank(u))

\* C11 witness: url A alone in the first event, url B new in the second, two calls:
\* B carries src-2, the id after A's.
C11_Witness ==
    /\ Len(events) = 2
    /\ WebUrls(events[1]) = {"A"}
    /\ "B" \in WebUrls(events[2])
    /\ calls >= 2
    /\ url_to_short_id["A"] = ShortId(1)
    /\ url_to_short_id["B"] = ShortId(2)

\* The caps of the ledger. The callback names none and compares against none; they
\* stand here with the values of the scenarios they are checked on: a ledger capped
\* at one source, and at three claims for each source.
MAX_SOURCES == 1
MAX_CLAIMS_PER_SOURCE == 3

\* C12: cap invariant. The source map never holds more than MAX_SOURCES entries: with
\* a cap of one source and two distinct new urls, only the first becomes a source.
C12_SourceCapHolds == Cardinality(DOMAIN sources) <= MAX_SOURCES

\* C13: claim cap. After one call on an empty ledger the supported_claims of every
\* source holds at most MAX_CLAIMS_PER_SOURCE claims: a pair that would exceed the
\* cap is not appended.
C13_ClaimCapHolds ==
    calls = 1 => \A s \in DOMAIN sources :
                    Len(sources[s].supported_claims) <= MAX_CLAIMS_PER_SOURCE

\* the (event, support, index position) triples of session.events whose chunk index
\* names a web chunk of url u in the same event
Pairs(u) ==
    {p \in UNION {UNION {{<<k, j, i>> :
                            i \in DOMAIN events[k].grounding_supports[j].grounding_chunk_indices} :
                        j \in DOMAIN events[k].grounding_supports} :
                  k \in DOMAIN events} :
        LET chunks == events[p[1]].grounding_chunks
            chunk_idx == events[p[1]].grounding_supports[p[2]].grounding_chunk_indices[p[3]]
        IN /\ chunk_idx + 1 \in DOMAIN chunks
           /\ chunks[chunk_idx + 1].web
           /\ chunks[chunk_idx + 1].uri = u}
\* triple p is walked before triple q
WalkedBefore(p, q) ==
    \/ p[1] < q[1]
    \/ p[1] = q[1] /\ p[2] < q[2]
    \/ p[1] = q[1] /\ p[2] = q[2] /\ p[3] < q[3]
\* the claim the triple p stands for
ClaimOf(p) ==
    LET support == events[p[1]].grounding_supports[p[2]] IN
    [text_segment |-> IF support.segment = NoSegment THEN "" ELSE support.segment,
     confidence |-> PairedConfidence(support.confidence_scores, p[3])]

\* C14: in one pass of the callback over session.events, every (support, chunk
\* index) pair that resolves to a web chunk of its own event appends exactly one
\* claim to the source of that chunk's url and to no other source: each source
\* keeps the claims it held and gains, in the order the pairs are walked, one
\* claim for each pair of its url, and nothing else.
C14_OneClaimPerResolvedPair ==
    [][calls' = calls + 1 =>
        \A u \in DOMAIN url_to_short_id' :
            LET s == url_to_short_id'[u]
                before == IF s \in DOMAIN sources
                          THEN sources[s].supported_claims ELSE <<>>
                after == sources'[s].supported_claims
            IN /\ Len(after) = Len(before) + Cardinality(Pairs(u))
               /\ SubSeq(after, 1, Len(before)) = before
               /\ \A p \in Pairs(u) :
                     after[Len(before) + 1
                           + Cardinality({q \in Pairs(u) : WalkedBefore(q, p)})]
                         = ClaimOf(p)]_vars

\* C14 witness: event 1 sights A and B with one claim each, event 2 sights A again
\* with a new claim; after one call there are two sources, A holding its two claims
\* in event order and B holding one.
C14_Witness ==
    /\ events = <<GroundingEvent(<<ChunkA, ChunkB>>,
                       <<Support("s3", <<0>>, <<70>>), Support("s4", <<1>>, <<60>>)>>),
                  GroundingEvent(<<ChunkA>>, <<Support("s1", <<0>>, <<90>>)>>)>>
    /\ calls = 1
    /\ DOMAIN sources = {ShortId(1), ShortId(2)}
    /\ sources[url_to_short_id["A"]].supported_claims =
          <<[text_segment |-> "s3", confidence |-> 70],
            [text_segment |-> "s1", confidence |-> 90]>>
    /\ sources[url_to_short_id["B"]].supported_claims =
          <<[text_segment |-> "s4", confidence |-> 60]>>

\* C15: malformed input is skipped. A web chunk with a missing uri leaves no trace
\* in the ledger: no source stands for it and the index holds no entry for it.
C15_MalformedChunkSkipped ==
    /\ NoUri \notin DOMAIN url_to_short_id
    /\ \A s \in DOMAIN sources : sources[s].url # NoUri

---------------------------------------------------------------------------
(* The citation rewriter on its own: the composer returns any report text of up *)
(* to MaxReportLen tokens over a ledger of up to MaxLedgerSources sources that  *)
(* the callback of a search stage has built.                                    *)

MaxLedgerSources == 16
MaxReportLen == 3

Url(i) == "u" \o ToString(i)
\* the grounding event of a search that found n pages
SearchFinding(n) ==
    GroundingEvent([i \in 1..n |-> WebChunk(Url(i), "t", "d")], <<>>)

\* a marker of src-2, of src-10, and of src-99, which no ledger here holds
ReportTokens == {Word, Space, Punct, Cite(<<2>>), Cite(<<1, 0>>), Cite(<<9, 9>>)}
RewriterReports == UNION {[1..l -> ReportTokens] : l \in 1..MaxReportLen}

InitRewriter ==
    /\ max_search_iterations = 1
    /\ pc = "enhanced_sales_report_composer"
    /\ times_looped = 0
    /\ run = 1
    /\ loop_iteration_count = 0
    /\ sales_research_evaluation = AbsentVerdict
    /\ outputs = [k \in OutputKeys |-> NoText]
    /\ report = <<>>
    /\ report_read = <<>>
    /\ \E n \in 0..MaxLedgerSources :
          LET ledger == CollectResearchSources(<<SearchFinding(n)>>, EmptyMap, EmptyMap) IN
          /\ events = <<SearchFinding(n)>>
          /\ url_to_short_id = ledger.url_to_short_id
          /\ sources = ledger.sources
    /\ last_pass = NoPass
    /\ passes = 0
    /\ calls = 1
    /\ PersistenceIdle
    /\ TenancyIdle

NextRewriter == enhanced_sales_report_composer(RewriterReports)

SpecRewriter == InitRewriter /\ [][NextRewriter]_vars

\* the report without its References block: the heading and one entry per source
ReportBody == SubSeq(report, 1, Len(report) - (Cardinality(DOMAIN sources) + 1))
\* the entries of the References block
ReferenceEntries == SelectSeq(report, LAMBDA t : t.kind = "ref")
\* the tokens of a text other than whitespace, as their kinds
RECURSIVE Kinds(_)
Kinds(text) ==
    IF text = <<>> THEN <<>>
    ELSE IF Head(text).kind = "space" THEN Kinds(Tail(text))
    ELSE <<Head(text).kind>> \o Kinds(Tail(text))
IsUnknownMarker(t) == t.kind = "cite" /\ t.id \notin DOMAIN sources
IsKnownMarker(t) == t.kind = "cite" /\ t.id \in DOMAIN sources

\* C16: unknown markers are always removed. In the report the callback stores no
\* marker is left, the links are as many as the markers of known sources, and
\* apart from whitespace the text is what was read with each marker of an unknown
\* source replaced by nothing and each other marker by a link.
C16_UnknownMarkersRemoved ==
    pc = "done" =>
        /\ \A i \in DOMAIN report : report[i].kind # "cite"
        /\ Len(SelectSeq(ReportBody, LAMBDA t : t.kind = "link"))
              = Len(SelectSeq(report_read, IsKnownMarker))
        /\ Kinds(ReportBody)
              = [i \in DOMAIN Kinds(SelectSeq(report_read, LAMBDA t : ~IsUnknownMarker(t))) |->
                    LET k == Kinds(SelectSeq(report_read, LAMBDA t : ~IsUnknownMarker(t)))[i]
                    IN IF k = "cite" THEN "link" ELSE k]

\* C16 witness: the text read held a marker of a source the ledger lacks next to a
\* marker of a source it holds, and the callback has stored its report.
C16_Witness ==
    /\ pc = "done"
    /\ \E i \in DOMAIN report_read : IsUnknownMarker(report_read[i])
    /\ \E i \in DOMAIN report_read : IsKnownMarker(report_read[i])

\* C17: rewriter totality. Every marker of a source the map holds is replaced by a
\* link whose number K is the number of the References entry that describes that
\* same source; the entries are numbered 1..n, one for each of the n sources.
C17_LinksMatchReferences ==
    pc = "done" =>
        LET links == SelectSeq(ReportBody, LAMBDA t : t.kind = "link")
            known == SelectSeq(report_read, IsKnownMarker)
            n == Cardinality(DOMAIN sources)
        IN /\ Len(links) = Len(known)
           /\ \A j \in DOMAIN links :
                 \E r \in DOMAIN ReferenceEntries :
                    /\ ReferenceEntries[r].n = links[j].n
                    /\ ReferenceEntries[r].url = sources[known[j].id].url
           /\ Len(ReferenceEntries) = n
           /\ \A r \in DOMAIN ReferenceEntries : ReferenceEntries[r].n = r
           /\ \A s \in DOMAIN sources :
                 \E r \in DOMAIN ReferenceEntries :
                    /\ ReferenceEntries[r].url = sources[s].url
                    /\ ReferenceEntries[r].title = sources[s].title
                    /\ ReferenceEntries[r].domain = sources[s].domain

\* C17 witness: the text read cited src-2 and src-10 over a ledger that holds both,
\* and the stored report links them under two different numbers.
C17_Witness ==
    /\ pc = "done"
    /\ \E i, j \in DOMAIN report_read :
          report_read[i] = Cite(<<2>>) /\ report_read[j] = Cite(<<1, 0>>)
    /\ {<<2>>, <<1, 0>>} \subseteq DOMAIN sources
    /\ \E i, j \in DOMAIN report :
          report[i].kind = "link" /\ report[j].kind = "link" /\ report[i].n # report[j].n

\* the integer a short id ends in: int of the digits after "src-"
RECURSIVE NumericSuffix(_)
NumericSuffix(digits) ==
    IF digits = <<>> THEN 0
    ELSE 10 * NumericSuffix(SubSeq(digits, 1, Len(digits) - 1)) + digits[Len(digits)]
\* the number of the References entry that describes source s
EntryNumber(s) ==
    ReferenceEntries[CHOOSE r \in DOMAIN ReferenceEntries :
                        ReferenceEntries[r].url = sources[s].url].n

\* C18: reference indices follow the numeric suffix of the short ids. For sources
\* src-i and src-j with i < j as integers, the entry of src-i has the smaller
\* number, in a source map of any size.
C18_IndexFollowsNumericSuffix ==
    pc = "done" =>
        \A s, t \in DOMAIN sources :
            NumericSuffix(s) < NumericSuffix(t) => EntryNumber(s) < EntryNumber(t)

\* The cap of the References block. The callback names none; it stands here with
\* the value the specification of the rewriter reports for it.
MAX_REFERENCES == 15

\* C19: the References block never has more than MAX_REFERENCES entries, whatever
\* the size of the source map.
C19_ReferencesCapHolds ==
    pc = "done" => Len(ReferenceEntries) <= MAX_REFERENCES

\* C20: citation_replacement_callback does not mutate the source map. Across the
\* step in which the callback rewrites the report, state["sources"] and
\* state["url_to_short_id"] are the same maps before and after: same keys, same
\* titles, urls, domains and claim lists, whatever the report text.
C20_SourceMapUntouched ==
    [][pc = "enhanced_sales_report_composer" /\ pc' = "done" =>
          /\ sources' = sources
          /\ url_to_short_id' = url_to_short_id]_vars

\* C20 witness: the callback has rewritten a report that cites one source of a
\* ledger holding others that the report does not cite.
C20_Witness ==
    /\ pc = "done"
    /\ \E i \in DOMAIN report_read : IsKnownMarker(report_read[i])
    /\ \E s \in DOMAIN sources :
          \A i \in DOMAIN report_read : report_read[i] # Cite(s)
    /\ \E i \in DOMAIN report : report[i].kind = "link"

---------------------------------------------------------------------------
(* The order of the stages of sales_intelligence_pipeline. *)

\* the stages with after_agent_callback=collect_research_sources_callback
SearchStages == {"enhanced_sales_researcher", "stakeholder_discovery_agent",
                 "competitive_intelligence_agent", "enhanced_sales_search"}
\* the stages that can run right before stage
Predecessors(stage) ==
    CASE stage = "sales_section_planner" -> {"done"}
      [] stage = "enhanced_sales_researcher" -> {"sales_section_planner"}
      [] stage = "stakeholder_discovery_agent" -> {"enhanced_sales_researcher"}
      [] stage = "competitive_intelligence_agent" -> {"stakeholder_discovery_agent"}
      [] stage = "enhanced_sales_evaluator" ->
            {"competitive_intelligence_agent", "enhanced_sales_search"}
      [] stage = "sales_escalation_checker" -> {"enhanced_sales_evaluator"}
      [] stage = "enhanced_sales_search" -> {"sales_escalation_checker"}
      [] stage = "enhanced_sales_report_composer" ->
            {"sales_escalation_checker", "enhanced_sales_search"}
      [] stage = "done" -> {"enhanced_sales_report_composer"}
      [] stage = "crashed" -> LlmStages \cup {"sales_escalation_checker"}

\* C21: the pipeline runs its stages strictly in list order, one at a time. Every
\* step ends one stage and makes a stage that follows it in the list the next one:
\* the loop starts only after the last research stage, the composer only after a
\* stage of the loop, and after the composer nothing but a new invocation. When a
\* search stage hands over, its callback has ingested every event of the session;
\* when the composer hands over, its callback has rewritten every marker.
C21_StagesInListOrder ==
    [][/\ pc' # pc
       /\ pc \in Predecessors(pc')
       /\ pc = "done" => run' = run + 1
       /\ (pc \in SearchStages /\ pc' # "crashed") =>
              \A k \in DOMAIN events' :
                  WebUrls(events'[k]) \subseteq DOMAIN url_to_short_id'
       /\ pc' = "done" => \A i \in DOMAIN report' : report'[i].kind # "cite"]_vars

\* C21 witness: a run went through the loop twice, met a source on the way and
\* ended with the composer's report.
C21_Witness ==
    /\ pc = "done"
    /\ times_looped >= 1
    /\ last_pass.event = "ESCALATE"
    /\ DOMAIN sources # {}
    /\ \E i \in DOMAIN report : report[i].kind = "link"

\* C27: within every loop pass the evaluator runs first, then the checker; the
\* gap-fill researcher runs next if and only if the checker's decision of that pass
\* was REFINE; after an ESCALATE decision the next stage is the report composer,
\* and after the composer neither the researcher nor the evaluator runs.
C27_LoopPassOrder ==
    [][/\ pc' = "sales_escalation_checker" => pc = "enhanced_sales_evaluator"
       /\ pc = "enhanced_sales_evaluator" => pc' \in {"sales_escalation_checker", "crashed"}
       /\ pc = "sales_escalation_checker" =>
             /\ last_pass'.ran
             /\ pc' = "enhanced_sales_search" <=> last_pass'.event = "REFINE"
             /\ last_pass'.event = "ESCALATE" => pc' = "enhanced_sales_report_composer"
       /\ pc' = "enhanced_sales_search" => pc = "sales_escalation_checker"
       /\ pc = "enhanced_sales_report_composer" => pc' \in {"done", "crashed"}]_vars

\* C27 witness: a pass whose decision was REFINE was followed by the gap-fill
\* researcher, and a later pass whose decision was ESCALATE by the composer.
C27_Witness ==
    /\ pc = "enhanced_sales_report_composer"
    /\ last_pass.event = "ESCALATE"
    /\ times_looped >= 1
    /\ outputs["sales_research_findings"] # NoText

\* C22: the pipeline always terminates with a report. A run stops only in the state
\* the composer leaves: as long as the report of the run is not written some stage
\* can still run, also after a stage or a callback has failed.
C22_RunStopsOnlyWithReport == pc = "done" \/ ENABLED Next

---------------------------------------------------------------------------
(* tools/mongoupload.py on its own: any sequence of calls of update_project_report *)
(* and of the announce functions on a store that holds the document of project p1. *)

ProjectIds == {"p1", "p2", QuotedP1}
\* four fields of the allow-list and a name outside it
ReportTypes == {"target_org_research", "target_org_research_html", "market_context",
                "prospect_research", "sales_summary"}
Reports == {"report"}
HtmlReports == {"", "html", None}
MongoUris == {None, "", "mongodb://host"}
\* what the callback state may hold under "project_id"
StateProjectIds == {Absent, None, "p1", QuotedP1}

InitStore ==
    /\ Init
    /\ max_search_iterations = 1
    /\ sales_research_evaluation = AbsentVerdict

NextStore ==
    \/ update_project_report(ProjectIds, Reports, ReportTypes, HtmlReports, MongoUris)
    \/ announce_markdown_upload(ProjectIds \cup {None}, ReportTypes)
    \/ announce_html_upload(ProjectIds \cup {None}, ReportTypes)
    \/ announce_markdown_finish(StateProjectIds)
    \/ announce_html_finish(StateProjectIds)

SpecStore == InitStore /\ [][NextStore]_vars

\* C23: persistence validation errors are raised with no side effect. A call of
\* update_project_report with a report_type outside the allow-list, or with the
\* connection string unset, ends with ValueError, and across it the documents of
\* the store and the messages the webhook has received are unchanged.
C23_ValidationErrorNoSideEffect ==
    [][(/\ last_call'.n = last_call.n + 1
        /\ last_call'.op = "update_project_report"
        /\ \/ last_call'.report_type \notin allowed_fields
           \/ last_call'.mongo_uri \in {None, ""})
       => /\ last_call'.raised = "ValueError"
          /\ collection' = collection
          /\ webhooks' = webhooks]_vars

\* C23 witness: after a call that stored a report and announced it, a call for the
\* same project with a report_type outside the allow-list has ended with ValueError.
C23_Witness ==
    /\ last_call.n = 2
    /\ last_call.op = "update_project_report"
    /\ last_call.report_type \notin allowed_fields
    /\ last_call.project_id = "p1"
    /\ last_call.mongo_uri = "mongodb://host"
    /\ last_call.raised = "ValueError"
    /\ collection[1]["target_org_research"] = "report"
    /\ Len(webhooks) = 1

\* C24: status-webhook failures never propagate. Every call of
\* announce_markdown_upload, announce_markdown_finish, announce_html_upload and
\* announce_html_finish returns normally, whether the request fails or the project
\* id is missing from the callback state.
C24_AnnounceNeverRaises ==
    last_call.op \in {"announce_markdown_upload", "announce_markdown_finish",
                      "announce_html_upload", "announce_html_finish"}
        => last_call.raised = "none"

---------------------------------------------------------------------------
(* Two projects side by side. Each run of the pipeline has its own session;   *)
(* a state key without a prefix belongs to the session of the run that uses   *)
(* it, a key with the prefix "app:" to all sessions at once. The stages of    *)
(* the two runs interleave at stage boundaries.                               *)

Projects == {"p1", "p2"}
Owners == Projects \cup {"app"}
\* the state keys the checker and the callbacks read and write
StateKeys == {"loop_iteration_count", "sales_research_evaluation", "url_to_short_id",
              "sources", "sales_intelligence_agent"}
\* the keys among them that are written with the prefix "app:"
AppKeys == {}

\* faulty variant: the loop counter is kept under a key shared by all sessions
ScopeSharedCounter(key) == IF key = "loop_iteration_count" THEN "app" ELSE "session"

Scope(key) == IF key \in AppKeys THEN "app" ELSE "session"

Owner(project, key) == IF Scope(key) = "app" THEN "app" ELSE project
\* state.get(key) and state[key] = value in a stage of the run of project
Get(st, project, key) == st[Owner(project, key)][key]
Set(st, project, key, value) == [st EXCEPT ![Owner(project, key)][key] = value]

\* a session before its first stage
FreshSession ==
    [pc |-> "sales_section_planner", times_looped |-> 0, events |-> <<>>,
     loop_iteration_count |-> 0, sales_research_evaluation |-> AbsentVerdict,
     url_to_short_id |-> EmptyMap, sources |-> EmptyMap, sales_intelligence_agent |-> <<>>]

NoInput == [grounding |-> NoGrounding, verdict |-> AbsentVerdict, text |-> <<>>]
NoFeed == [project |-> "none", input |-> NoInput]

\* what the stage at pc of a run may be fed: a search stage a grounding event or
\* none, the evaluator a verdict, the composer a report text
StageInputs(pc_, findings, verdicts, texts) ==
    CASE pc_ \in SearchStages -> {[NoInput EXCEPT !.grounding = g] : g \in findings \cup {NoGrounding}}
      [] pc_ = "enhanced_sales_evaluator" -> {[NoInput EXCEPT !.verdict = v] : v \in verdicts}
      [] pc_ = "enhanced_sales_report_composer" -> {[NoInput EXCEPT !.text = t] : t \in texts}
      [] OTHER -> {NoInput}

\* collect_research_sources_callback on the session of project
Ingest(st, project) ==
    LET ledger == CollectResearchSources(st[project].events,
                                         Get(st, project, "url_to_short_id"),
                                         Get(st, project, "sources"))
    IN Set(Set(st, project, "url_to_short_id", ledger.url_to_short_id),
           project, "sources", ledger.sources)

\* a search stage of the run of project: the event joins session.events, then the
\* callback runs
SearchStep(st, project, input) ==
    Ingest([st EXCEPT ![project].events =
               IF input.grounding = NoGrounding THEN @ ELSE Append(@, input.grounding)],
           project)

\* the stage at st[project].pc runs on what it is fed
ProjectStep(st, project, input, max_iterations) ==
    LET at == st[project].pc IN
    CASE at = "sales_section_planner" ->
            [st EXCEPT ![project].pc = "enhanced_sales_researcher"]
      [] at = "enhanced_sales_researcher" ->
            [SearchStep(st, project, input) EXCEPT
                ![project].pc = "stakeholder_discovery_agent"]
      [] at = "stakeholder_discovery_agent" ->
            [SearchStep(st, project, input) EXCEPT
                ![project].pc = "competitive_intelligence_agent"]
      [] at = "competitive_intelligence_agent" ->
            [SearchStep(st, project, input) EXCEPT
                ![project].pc = "enhanced_sales_evaluator", ![project].times_looped = 0]
      [] at = "enhanced_sales_evaluator" ->
            [Set(st, project, "sales_research_evaluation", input.verdict) EXCEPT
                ![project].pc = "sales_escalation_checker"]
      [] at = "sales_escalation_checker" ->
            LET iteration_count == Get(st, project, "loop_iteration_count")
                event == CheckerEvent(iteration_count,
                                      Get(st, project, "sales_research_evaluation"),
                                      max_iterations)
            IN [Set(st, project, "loop_iteration_count", NextIterationCount(iteration_count))
                   EXCEPT ![project].pc = AfterChecker(event)]
      [] at = "enhanced_sales_search" ->
            [SearchStep(st, project, input) EXCEPT
                ![project].times_looped = @ + 1,
                ![project].pc = AfterLoopIteration(st[project].times_looped + 1,
                                                   max_iterations)]
      [] at = "enhanced_sales_report_composer" ->
            [Set(st, project, "sales_intelligence_agent",
                 CitationReplacement(input.text, Get(st, project, "sources")))
                EXCEPT ![project].pc = "done"]

\* the grounding event a search of each project may return, while its session holds none
Findings(project, evs) ==
    IF evs # <<>> THEN {}
    ELSE IF project = "p1"
    THEN {GroundingEvent(<<WebChunk("A", "tA", "dA")>>, <<Support("s1", <<0>>, <<90>>)>>)}
    ELSE {GroundingEvent(<<WebChunk("B", "tB", "dB")>>, <<Support("s2", <<0>>, <<80>>)>>)}
TenancyVerdicts == {Mapping("insufficient"), Mapping("sales_ready")}
TenancyReports == {<<Word, Cite(<<1>>), Punct>>}

\* a stage of the run of one project
StageOfProject ==
    \E project \in Projects :
        /\ store[project].pc \notin {"done", "crashed"}
        /\ \E input \in StageInputs(store[project].pc,
                                     Findings(project, store[project].events),
                                     TenancyVerdicts, TenancyReports) :
              /\ store' = ProjectStep(store, project, input, max_search_iterations)
              /\ fed' = [project |-> project, input |-> input]
        /\ UNCHANGED <<session, persistence>>

InitTenancy ==
    /\ max_search_iterations = TenancyIterations
    /\ pc = "done"
    /\ times_looped = 0
    /\ run = 1
    /\ loop_iteration_count = 0
    /\ sales_research_evaluation = AbsentVerdict
    /\ outputs = [k \in OutputKeys |-> NoText]
    /\ report = <<>>
    /\ report_read = <<>>
    /\ events = <<>>
    /\ url_to_short_id = EmptyMap
    /\ sources = EmptyMap
    /\ last_pass = NoPass
    /\ passes = 0
    /\ calls = 0
    /\ PersistenceIdle
    /\ store = [o \in Owners |-> FreshSession]
    /\ fed = NoFeed

NextTenancy == StageOfProject

SpecTenancy == InitTenancy /\ [][NextTenancy]_vars

\* what the run of project sees: its position and the values its keys read as
View(st, project) ==
    [pc |-> st[project].pc, times_looped |-> st[project].times_looped,
     events |-> st[project].events,
     state |-> [k \in StateKeys |-> Get(st, project, k)]]
\* the sessions when project runs alone from the view it has
Alone(view, project) ==
    [o \in Owners |->
        IF o \in {project, "app"}
        THEN [pc |-> view.pc, times_looped |-> view.times_looped, events |-> view.events,
              loop_iteration_count |-> view.state["loop_iteration_count"],
              sales_research_evaluation |-> view.state["sales_research_evaluation"],
              url_to_short_id |-> view.state["url_to_short_id"],
              sources |-> view.state["sources"],
              sales_intelligence_agent |-> view.state["sales_intelligence_agent"]]
        ELSE FreshSession]

---------------------------------------------------------------------------
(* The evaluator's response and its validation against SalesFeedback.         *)
(* A response is kept as its grade, whether the required fields tier_achieved, *)
(* iteration_count and comment are all present and well-typed, and its         *)
(* follow_up_queries: None, or a list of well-formed queries of some length.   *)

Response(grade, required, none, queries) ==
    [grade |-> grade, required |-> required,
     follow_up_queries |-> [none |-> none, queries |-> queries]]

\* model_validate against SalesFeedback: grade is one of the Literal values and the
\* required fields are there; follow_up_queries is Optional and any list passes
SalesFeedbackValidates(response) ==
    /\ response.grade \in SalesFeedbackGrades
    /\ response.required

\* the dict stored under output_key="sales_research_evaluation"
StoredFeedback(response) ==
    [kind |-> "mapping", grade |-> response.grade,
     follow_up_queries |-> response.follow_up_queries]

EvaluatorResponses ==
    {Response(g, r, FALSE, n) :
        g \in SalesFeedbackGrades \cup {"pass", NoGrade}, r \in BOOLEAN, n \in 0..MaxQueries}
    \cup {Response(g, r, TRUE, 0) :
        g \in SalesFeedbackGrades \cup {"pass", NoGrade}, r \in BOOLEAN}

\* enhanced_sales_evaluator with output_schema=SalesFeedback: a response that
\* validates is stored, one that does not raises
EvaluatorResponds(responses) ==
    /\ pc = "enhanced_sales_evaluator"
    /\ \E response \in responses :
          IF SalesFeedbackValidates(response)
          THEN /\ sales_research_evaluation' = StoredFeedback(response)
               /\ pc' = "sales_escalation_checker"
          ELSE /\ pc' = "crashed"
               /\ UNCHANGED sales_research_evaluation
    /\ UNCHANGED <<persistence, tenancy, report, report_read, max_search_iterations,
                   times_looped, run, loop_iteration_count, outputs, events,
                   url_to_short_id, sources, last_pass, passes, calls>>

InitEvaluator ==
    /\ max_search_iterations \in ConfigMaxSearchIterations
    /\ pc = "enhanced_sales_evaluator"
    /\ times_looped = 0
    /\ run = 1
    /\ loop_iteration_count = 0
    /\ sales_research_evaluation = AbsentVerdict
    /\ outputs = [k \in OutputKeys |-> NoText]
    /\ report = <<>>
    /\ report_read = <<>>
    /\ events = <<>>
    /\ url_to_short_id = EmptyMap
    /\ sources = EmptyMap
    /\ last_pass = NoPass
    /\ passes = 0
    /\ calls = 0
    /\ PersistenceIdle
    /\ TenancyIdle

NextEvaluator ==
    \/ EvaluatorResponds(EvaluatorResponses)
    \/ SalesEscalationChecker

SpecEvaluator == InitEvaluator /\ [][NextEvaluator]_vars

\* "Maximum 4 focused follow-up searches"
MaxFollowUpQueries == 4

\* C26: every verdict that reaches the loop controller has follow-up queries only
\* when its grade is needs_improvement or insufficient, and never more than 4 of
\* them: the verdict the checker read satisfies both conditions.
C26_VerdictWellFormed ==
    (last_pass.ran /\ last_pass.verdict.kind = "mapping") =>
        LET queries == last_pass.verdict.follow_up_queries.queries IN
        /\ queries <= MaxFollowUpQueries
        /\ queries > 0 => last_pass.verdict.grade \in {"needs_improvement", "insufficient"}

\* C28: short-circuit at the cap. A call of the callback that finds the ledger
\* holding MAX_SOURCES sources changes nothing: it adds no source and appends no
\* claim to any source.
C28_ShortCircuitAtCap ==
    [][(calls' = calls + 1 /\ Cardinality(DOMAIN sources) >= MAX_SOURCES)
          => /\ sources' = sources
             /\ url_to_short_id' = url_to_short_id]_vars

\* C29: claim attachment is event-local and position-paired. After the first call
\* on an empty ledger each source holds one claim for each chunk index of a support
\* that denotes a web chunk of its url in the support's own event, and none for an
\* index that is out of range, denotes a non-web chunk or is valid only in another
\* event; the claim of the i-th index carries the i-th confidence score, or 0.5
\* when the support has no i-th score.
C29_EventLocalPositionPaired ==
    [][(calls = 0 /\ calls' = 1) =>
        \A u \in DOMAIN url_to_short_id' :
            LET claims == sources'[url_to_short_id'[u]].supported_claims IN
            /\ Len(claims) = Cardinality(Pairs(u))
            /\ \A p \in Pairs(u) :
                  LET scores == events[p[1]].grounding_supports[p[2]].confidence_scores
                      at == 1 + Cardinality({q \in Pairs(u) : WalkedBefore(q, p)})
                  IN claims[at].confidence =
                        IF p[3] \in DOMAIN scores THEN scores[p[3]] ELSE DefaultConfidence]_vars

\* C29 witness: the second event has a non-web chunk at index 0 and url A at index
\* 1, where the first event has url B; its supports name the indices 0, 1 and 1, 2
\* with one score between them. A holds two claims at the confidence of a missing
\* score, B none.
C29_Witness ==
    /\ calls = 1
    /\ events = <<GroundingEvent(<<ChunkA, ChunkB>>, <<>>),
                  GroundingEvent(<<NonWebChunk, ChunkA>>,
                      <<Support("s2", <<0, 1>>, <<80>>), Support(NoSegment, <<1, 2>>, <<>>)>>)>>
    /\ sources[url_to_short_id["A"]].supported_claims =
          <<[text_segment |-> "s2", confidence |-> DefaultConfidence],
            [text_segment |-> "", confidence |-> DefaultConfidence]>>
    /\ sources[url_to_short_id["B"]].supported_claims = <<>>

---------------------------------------------------------------------------
(* The ledger over a pipeline run: the stages of the pipeline with grounding  *)
(* events that sight several urls, one of them twice under two titles.        *)

RunEvents ==
    {GroundingEvent(<<ChunkA, ChunkB, ChunkA2>>,
         <<Support("s2", <<0, 1>>, <<80>>), Support(NoSegment, <<1, 2>>, <<>>)>>),
     GroundingEvent(<<ChunkB, ChunkA2>>, <<Support("s1", <<0>>, <<90>>)>>)}

InitLedgerRun ==
    /\ Init
    /\ max_search_iterations = 1

NextLedgerRun ==
    \/ sales_section_planner(StageTexts)
    \/ enhanced_sales_researcher(StageTexts, RunEvents)
    \/ stakeholder_discovery_agent(StageTexts, RunEvents)
    \/ competitive_intelligence_agent(StageTexts, RunEvents)
    \/ enhanced_sales_evaluator
    \/ SalesEscalationChecker
    \/ enhanced_sales_search(GapFillTexts, RunEvents)
    \/ enhanced_sales_report_composer(ComposerReports)
    \/ LlmCallFails
    \/ RunAgain

SpecLedgerRun == InitLedgerRun /\ [][NextLedgerRun]_vars

\* the sequence old is a prefix of the sequence new
IsPrefix(old, new) == Len(old) <= Len(new) /\ SubSeq(new, 1, Len(old)) = old

\* C30: the ledger only grows. In every step of a pipeline run, whatever stage or
\* callback takes it: every url of the index stays mapped to the short id it had,
\* every source stays in the map with the url, title and domain it had, and its
\* claim list is the one it had with claims appended at the end or none.
C30_LedgerOnlyGrows ==
    [][/\ \A u \in DOMAIN url_to_short_id :
             /\ u \in DOMAIN url_to_short_id'
             /\ url_to_short_id'[u] = url_to_short_id[u]
       /\ \A s \in DOMAIN sources :
             /\ s \in DOMAIN sources'
             /\ sources'[s].url = sources[s].url
             /\ sources'[s].title = sources[s].title
             /\ sources'[s].domain = sources[s].domain
             /\ IsPrefix(sources[s].supported_claims, sources'[s].supported_claims)]_vars

\* C30 witness: a run has ended with a rewritten report; url A, sighted under a
\* second title by every pass over the events, keeps its first title, and its
\* source holds the claims of more than one pass.
C30_Witness ==
    /\ pc = "done"
    /\ calls >= 2
    /\ Cardinality(DOMAIN sources) = 2
    /\ "A" \in DOMAIN url_to_short_id
    /\ sources[url_to_short_id["A"]].title = "tA"
    /\ Len(sources[url_to_short_id["A"]].supported_claims) >= 2
    /\ \E i \in DOMAIN report : report[i].kind = "link"

---------------------------------------------------------------------------
(* The whitespace cleanup of citation_replacement_callback, on texts long     *)
(* enough to hold a marker between two whitespace runs before a mark.         *)

MaxCleanupLen == 4

\* "word <cite source="src-3" /> ."
SentenceWithUnknownMarker == <<Word, Space, Cite(<<3>>), Space, Punct>>

CleanupTokens == {Word, Space, Punct, Cite(<<1>>), Cite(<<3>>)}
CleanupReports ==
    UNION {[1..l -> CleanupTokens] : l \in 1..MaxCleanupLen} \cup {SentenceWithUnknownMarker}

NextCleanup == enhanced_sales_report_composer(CleanupReports)

SpecCleanup == InitRewriter /\ [][NextCleanup]_vars

\* the positions of the tokens of text other than whitespace, from position i on
RECURSIVE InkFrom(_, _)
InkFrom(text, i) ==
    IF i > Len(text) THEN <<>>
    ELSE IF text[i].kind = "space" THEN InkFrom(text, i + 1)
    ELSE <<i>> \o InkFrom(text, i + 1)

\* the length of the whitespace run after the k-th token of text that is not
\* whitespace (before the first one for k = 0, up to the end after the last one)
Gap(text, k) ==
    LET ink == InkFrom(text, 1)
        from == IF k = 0 THEN 0 ELSE ink[k]
        to == IF k = Len(ink) THEN Len(text) + 1 ELSE ink[k + 1]
    IN to - from - 1

\* C31: whitespace cleanup after marker removal. In the report body the callback
\* stores no mark of [.,;:] comes right after whitespace; the tokens other than
\* whitespace are those of the input without its unknown markers, a link standing
\* for each known marker, in order; and a whitespace run of that input is dropped
\* when a mark follows it and kept whole otherwise.
C31_WhitespaceCleanup ==
    pc = "done" =>
        LET unmarked == SelectSeq(report_read, LAMBDA t : ~IsUnknownMarker(t))
            ink == InkFrom(unmarked, 1)
            body == ReportBody
            bodyInk == InkFrom(body, 1)
        IN /\ \A i \in 2..Len(body) :
                 body[i].kind = "punct" => body[i - 1].kind # "space"
           /\ Len(bodyInk) = Len(ink)
           /\ \A k \in DOMAIN ink :
                 IF unmarked[ink[k]].kind = "cite"
                 THEN body[bodyInk[k]].kind = "link"
                 ELSE body[bodyInk[k]] = unmarked[ink[k]]
           /\ \A k \in 0..Len(ink) :
                 Gap(body, k) =
                    IF k < Len(ink) /\ unmarked[ink[k + 1]].kind = "punct"
                    THEN 0 ELSE Gap(unmarked, k)

\* C31 witness: the only marker of the report names src-3, the map holds src-1 and
\* src-2; the stored report is the word, the mark right after it, and a References
\* block of the entries 1 and 2.
C31_Witness ==
    /\ pc = "done"
    /\ report_read = SentenceWithUnknownMarker
    /\ DOMAIN sources = {<<1>>, <<2>>}
    /\ report = <<Word, Punct, Heading,
                  Reference(1, sources[<<1>>]), Reference(2, sources[<<2>>])>>

---------------------------------------------------------------------------
(* The end of the quality loop and the counter over the runs of one session. *)

\* C32: the quality loop ends only through an escalate event of the checker. The
\* stage that hands over to the report composer is the checker, in a pass that
\* emitted escalate; the gap-fill researcher never hands over to the composer.
C32_LoopEndsThroughChecker ==
    [][pc' = "enhanced_sales_report_composer" =>
          /\ pc = "sales_escalation_checker"
          /\ last_pass'.event = "ESCALATE"]_vars

\* C33: every run starts its quality loop with the iteration counter at 0. The
\* first pass of the checker in a run, the second run on a session included, reads
\* the counter as 0.
C33_CounterStartsAtZero ==
    [][(pc = "sales_escalation_checker" /\ times_looped = 0) => last_pass'.read = 0]_vars

---------------------------------------------------------------------------
(* What the report composer reads. include_contents="none": its input is its  *)
(* instruction, with the state values its placeholders name.                  *)

\* the placeholders of the composer's instruction
ComposerInputKeys == {"enhanced_sales_research_plan", "enhanced_sales_research_findings",
                      "stakeholder_intelligence", "competitive_intelligence",
                      "sources", "sales_report_sections"}

\* the state values the composer is given: the texts of the stage keys among its
\* placeholders, and the source map
ComposerInput(out, srcs) ==
    [texts |-> [k \in ComposerInputKeys \cap DOMAIN out |-> out[k]],
     sources |-> IF "sources" \in ComposerInputKeys THEN srcs ELSE EmptyMap]

\* C34: findings gathered in refine passes reach the report. In a run whose one
\* refine pass is followed by the composer, a gap-fill researcher that stores
\* findings leaves the composer an input other than the one it would have had
\* without the pass.
C34_RefineFindingsReachComposer ==
    [][(/\ pc = "enhanced_sales_search"
        /\ times_looped = 0
        /\ outputs' # outputs
        /\ pc' = "enhanced_sales_report_composer")
          => ComposerInput(outputs', sources') # ComposerInput(outputs, sources)]_vars

---------------------------------------------------------------------------
(* Repeated ingestion of session.events. *)

\* C35: repeated ingestion does not duplicate claims. After any call of the
\* callback every source holds as many claims as session.events has (event,
\* support, chunk index) triples that resolve to its url, each triple having
\* contributed once over all the calls so far.
C35_NoDuplicateClaims ==
    [][calls' = calls + 1 =>
          \A u \in DOMAIN url_to_short_id' :
              Len(sources'[url_to_short_id'[u]].supported_claims) = Cardinality(Pairs(u))]_vars

---------------------------------------------------------------------------
(* What update_project_report announces and what it writes. *)

\* C36: a status announcement implies a stored report. A call of
\* update_project_report for a project_id no document of the store has ends with
\* ValueError and has sent no webhook message.
C36_AnnouncementImpliesStoredReport ==
    [][(/\ last_call'.n = last_call.n + 1
        /\ last_call'.op = "update_project_report"
        /\ \A i \in DOMAIN collection : collection[i]["project_id"] # last_call'.project_id)
          => /\ last_call'.raised = "ValueError"
             /\ webhooks' = webhooks]_vars

\* the fields of document after that document before does not hold with the same value
FieldsSet(before, after) ==
    {f \in DOMAIN after : f \notin DOMAIN before \/ after[f] # before[f]}

\* C37: update_project_report writes only fields of the allow-list. Whatever the
\* report_type, a call leaves as many documents as there were, and every field of
\* a document that it adds or changes is a field of the allow-list; no field is
\* removed.
C37_OnlyAllowListFieldsWritten ==
    [][(last_call'.n = last_call.n + 1 /\ last_call'.op = "update_project_report")
          => /\ Len(collection') = Len(collection)
             /\ \A i \in DOMAIN collection :
                   /\ DOMAIN collection[i] \subseteq DOMAIN collection'[i]
                   /\ FieldsSet(collection[i], collection'[i]) \subseteq allowed_fields]_vars

---------------------------------------------------------------------------
(* create_blank_project, called by several processes on one store, beside     *)
(* update_project_report.                                                     *)

NextProjects ==
    \/ create_blank_project_find_one({"p1", "p2"})
    \/ create_blank_project_insert_one
    \/ update_project_report({"p1", "p2"}, Reports, {"target_org_research"}, {"html"},
                             {"mongodb://host"})

SpecProjects == InitStore /\ [][NextProjects]_vars

\* the documents of the collection with this project_id
DocumentsOf(coll, project_id) == {i \in DOMAIN coll : coll[i]["project_id"] = project_id}

\* C38: create_blank_project keeps at most one document per project_id and never
\* overwrites stored reports. However the calls of several processes interleave,
\* the store holds at most one document for a project_id, exactly one once a call
\* for it has returned; and no step of create_blank_project changes a document
\* the store holds.
C38_OneDocumentPerProject ==
    [][(creators' # creators) =>
          /\ \A project_id \in {"p1", "p2"} :
                Cardinality(DocumentsOf(collection', project_id)) <= 1
          /\ \A c \in Callers :
                (creators[c].at = "insert_one" /\ creators'[c].at = "outside") =>
                    Cardinality(DocumentsOf(collection', creators[c].project_id)) = 1
          /\ IsPrefix(collection, collection')]_vars

====
